---- MODULE Spec2Model ----
(***************************************************************************)
(* Model of isc_to_nll.py: ISCBull2NLLocObs.bulletin_parser and the        *)
(* helpers it calls (__read_isc_stations, __read_gfn_stations, __qual2err, *)
(* __average_pick).                                                        *)
(*                                                                         *)
(* Conventions.  A Python call that may raise is modelled by an outcome    *)
(* record [exc |-> <exception type or "none">, val |-> <returned value>].  *)
(* Times of day are records [hour, minute, second, microsecond]; dates are *)
(* day ordinals (date + timedelta(days=1) is +1).  Floats that the code    *)
(* only copies or averages are kept in hundredths (0.2 s is 20).           *)
(***************************************************************************)
EXTENDS Integers, Sequences, FiniteSets, TLC

(* ------------------------------ bounds -------------------------------- *)

\* events per bulletin
MaxEvents == 2
\* phase-block lines per event
MaxLines == 2
\* characters (tokens) of a bulletin text given to the splitter
MaxText == 7
\* members of a PickGroup given to __average_pick
MaxPicks == 3

(* ------------------------- Python object model ------------------------ *)

NoExc == "none"

Return(v) == [exc |-> NoExc, val |-> v]

Raise(e) == [exc |-> e, val |-> <<>>]

\* The attributes the class body of ISCBull2NLLocObs binds.  A name that
\* starts with two underscores is stored under its mangled name.
ClassAttrs ==
  { "_ISCBull2NLLocObs__isc2gfn_alias_dic",
    "_ISCBull2NLLocObs__isc2gfn_duplicate_dic",
    "_ISCBull2NLLocObs__read_isc_stations",
    "_ISCBull2NLLocObs__read_gfn_stations",
    "_ISCBull2NLLocObs__qual2err",
    "_ISCBull2NLLocObs__average_pick",
    "bulletin_parser" }

\* The attribute names the body of bulletin_parser looks up on cls, as the
\* compiler leaves them: cls.__x inside the class is compiled to the mangled
\* name, cls.x is left alone.
AliasDicRef == "isc2gfn_alias_dic"

DuplicateDicRef == "isc2gfn_duplicate_dic"

Qual2ErrRef == "_ISCBull2NLLocObs__qual2err"

AveragePickRef == "_ISCBull2NLLocObs__average_pick"

HasClassAttr(name) == name \in ClassAttrs

\* The data attributes of a datetime.time object.
TimeAttrs == {"hour", "minute", "second", "microsecond", "tzinfo"}

\* The attribute __average_pick and the line formatter read for the
\* sub-second part of a time.
SubSecondRef == "msecond"

HasTimeAttr(name) == name \in TimeAttrs

(* ---------------------------- station tables -------------------------- *)

isc2gfn_alias_dic ==
  ("GRF" :> "GR_GRA1") @@ ("SJI" :> "IA_SWJI") @@ ("CTA" :> "IU_CTAO") @@
  ("DEIG" :> "MX_DHIG") @@ ("KNMB" :> "TW_KMNB") @@ ("MZBI" :> "GE_MSBI") @@
  ("FLTG" :> "GE_FLT1") @@ ("HMBC" :> "CX_HMBCX") @@ ("SPITS" :> "NO_SPA0") @@
  ("GEC2A" :> "GR_GEC2") @@ ("KRKI" :> "IA_KRK") @@ ("MYLDM" :> "MY_LDM") @@
  ("SIMRM" :> "RM_SIM") @@ ("SLVN" :> "RM_SLV")

isc2gfn_duplicate_dic ==
  ("IVI" :> "G_IVI") @@ ("PTK" :> "KO_PTK") @@ ("PSI" :> "PS_PSI") @@
  ("KWP" :> "GE_KWP") @@ ("SUW" :> "GE_SUW") @@ ("LAST" :> "GE_LAST") @@
  ("SIVA" :> "GE_SIVA")

EmptyDic == [x \in {} |-> x]

\* dic[key] = value on a Python dict.
DicSet(dic, key, value) == [k \in DOMAIN dic \cup {key} |-> IF k = key THEN value ELSE dic[k]]

\* __read_isc_stations: one record <<first_code, second_code>> per line of
\* the file; only the records whose two codes differ enter the table.
RECURSIVE read_isc_stations(_)
read_isc_stations(data) ==
  IF data = <<>> THEN EmptyDic
  ELSE LET n == Len(data)
           rest == read_isc_stations(SubSeq(data, 1, n - 1))
           first_code == data[n][1]
           second_code == data[n][2]
       IN IF first_code # second_code THEN DicSet(rest, first_code, second_code) ELSE rest

\* "_".join((network, station)) for the codes of the model.
JoinNetSta(network, station) ==
  CASE network = "GE" /\ station = "ABC" -> "GE_ABC"
    [] network = "GE" /\ station = "GRF" -> "GE_GRF"
    [] network = "GR" /\ station = "GRF" -> "GR_GRF"
    [] network = "G" /\ station = "IVI" -> "G_IVI"
    [] OTHER -> "NET_STA"

\* __read_gfn_stations: one record <<network, station>> per line.
RECURSIVE read_gfn_stations(_)
read_gfn_stations(data) ==
  IF data = <<>> THEN EmptyDic
  ELSE LET n == Len(data)
           rest == read_gfn_stations(SubSeq(data, 1, n - 1))
           network == data[n][1]
           station == data[n][2]
       IN DicSet(rest, station, JoinNetSta(network, station))

\* The registry files of the model: the ISC file lists an alternate code and
\* a record whose two codes agree.
IscFiles == { <<>>, << <<"OLD", "GRF">>, <<"ABC", "ABC">> >> }

GfnFiles == { <<>>, << <<"GE", "ABC">>, <<"GE", "GRF">> >> }

(* ------------------------------ times --------------------------------- *)

Time(h, m, s, us) == [hour |-> h, minute |-> m, second |-> s, microsecond |-> us]

\* datetime.time.__lt__: the order of (hour, minute, second, microsecond).
TimeLT(a, b) ==
  \/ a.hour < b.hour
  \/ a.hour = b.hour /\ a.minute < b.minute
  \/ a.hour = b.hour /\ a.minute = b.minute /\ a.second < b.second
  \/ a.hour = b.hour /\ a.minute = b.minute /\ a.second = b.second
     /\ a.microsecond < b.microsecond

\* A time column of the bulletin: fmt says what the text looks like
\* ("frac": HH:MM:SS.ffffff, "plain": HH:MM:SS, "bad": neither), t the time
\* it spells.
TimeField(fmt, t) == [fmt |-> fmt, t |-> t]

\* datetime.strptime(text, "%H:%M:%S.%f")
StrptimeFrac(field) == IF field.fmt = "frac" THEN Return(field.t) ELSE Raise("ValueError")

\* datetime.strptime(text, "%H:%M:%S")
StrptimePlain(field) ==
  IF field.fmt = "plain" THEN Return(Time(field.t.hour, field.t.minute, field.t.second, 0))
  ELSE Raise("ValueError")

\* The arrival time of a phase line: the fractional pattern, and on any
\* failure of it the plain pattern.
ParseArrivalTime(field) ==
  IF StrptimeFrac(field).exc = NoExc THEN StrptimeFrac(field) ELSE StrptimePlain(field)

\* The date of a pick whose time of day is t, for an origin at origin_time
\* of origin_date.
ArrivalDate(origin_date, origin_time, t) ==
  IF TimeLT(t, origin_time) THEN origin_date + 1 ELSE origin_date + 0

(* ------------------------- numbers and residuals ---------------------- *)

\* A float kept as a fraction of hundredths.
Rat(n) == [num |-> n, den |-> 1]

RECURSIVE SeqSum(_)
SeqSum(s) == IF s = <<>> THEN 0 ELSE s[1] + SeqSum(Tail(s))

\* A residual of a pick: a float (hundredths) or the string 'N/A'.
ResFloat(v) == [isfloat |-> TRUE, val |-> v]

ResNA == [isfloat |-> FALSE, val |-> 0]

\* A numeric column of the bulletin after strip(): kind "blank" (empty
\* string), "num" (text of the number val) or "bad" (other text).
NumField(kind, v) == [kind |-> kind, val |-> v]

\* any(text): true of every non-empty string.
AnyChars(field) == field.kind # "blank"

\* float(text)
ParseFloat(field) == IF field.kind = "num" THEN Return(field.val) ELSE Raise("ValueError")

(* ------------------------------ __qual2err ---------------------------- *)

qual2err_Ptype == ("i" :> 20) @@ ("e" :> 50) @@ ("_" :> 100) @@ ("q" :> 100)

qual2err_nonP == ("i" :> 50) @@ ("e" :> 100) @@ ("_" :> 200) @@ ("q" :> 200)

\* phase.startswith("P") for the phase codes of the model.
StartsWithP(phase) == phase \in {"P", "Pn", "Pg", "PKP"}

qual2err(phase, onset_quality) ==
  LET table == IF StartsWithP(phase) \/ phase = "p" THEN qual2err_Ptype ELSE qual2err_nonP
  IN IF onset_quality \in DOMAIN table THEN Return(Rat(table[onset_quality]))
     ELSE Raise("KeyError")

(* ----------------------------- __average_pick ------------------------- *)

\* A pick is the tuple (onset_quality, arrival_date, arrival_time,
\* pick_uncertainty, tt_residual).
Pick(q, d, t, unc, res) == <<q, d, t, unc, res>>

SecondsOfDay(t) == t.hour * 3600 + t.minute * 60 + t.second

\* The mean of the times of day of time_list, as the quotient chain of
\* lines 150-155 gives it.  total is kept as whole seconds plus
\* microseconds: total = secs * 10^6 + micros.
MeanTime(time_list) ==
  LET n == Len(time_list)
      secs == SeqSum([k \in 1..n |-> SecondsOfDay(time_list[k])])
      micros == SeqSum([k \in 1..n |-> time_list[k].microsecond])
      q == secs \div n
      part == ((secs % n) * 1000000 + micros) \div n
      sec_all == q + (part \div 1000000)
      microsec == part % 1000000
      mn_all == sec_all \div 60
  IN Time(mn_all \div 60, mn_all % 60, sec_all % 60, microsec)

\* np.mean of the floats of xs.
Mean(xs) == [num |-> SeqSum(xs), den |-> Len(xs)]

\* [x for x in seq if type(x) == float], as the floats' values.
RECURSIVE SelectFloats(_)
SelectFloats(seq) ==
  IF seq = <<>> THEN <<>>
  ELSE IF seq[1].isfloat THEN <<seq[1].val>> \o SelectFloats(Tail(seq))
       ELSE SelectFloats(Tail(seq))

\* round(x, 2) of a fraction of hundredths, as hundredths (half away from zero).
Round2(r) ==
  LET twice == 2 * r.num + r.den
  IN IF r.num >= 0 THEN twice \div (2 * r.den) ELSE -((2 * (-r.num) + r.den) \div (2 * r.den))

average_pick(origin_date, origin_time, pick_list) ==
  IF pick_list # <<>> /\ ~HasTimeAttr(SubSecondRef) THEN Raise("AttributeError")
  ELSE IF pick_list = <<>> THEN Raise("ZeroDivisionError")
  ELSE
    LET n == Len(pick_list)
        time_list == [k \in 1..n |-> pick_list[k][3]]
        arrival_time == MeanTime(time_list)
        arrival_date == ArrivalDate(origin_date, origin_time, arrival_time)
        onset_quality == "?"
        uncs == [k \in 1..n |-> pick_list[k][4]]
        pick_uncertainty == [num |-> SeqSum([k \in 1..n |-> uncs[k].num]), den |-> n]
        r == SelectFloats([k \in 1..n |-> pick_list[k][5]])
        anyr == \E k \in 1..Len(r) : r[k] # 0
        tt_residual == IF anyr THEN ResFloat(Round2(Mean(r))) ELSE ResNA
    IN Return(Pick(onset_quality, arrival_date, arrival_time, pick_uncertainty, tt_residual))

(* -------------------------- station resolution ------------------------ *)

\* Lines 295-302: the ISC alias table first, then the first matching of the
\* embedded alias table, the embedded duplicate table and the GEOFON table.
\* The two embedded tables are read as attributes of cls.
ResolveStation(station, isc_dic, gfn_dic) ==
  LET s1 == IF station \in DOMAIN isc_dic THEN isc_dic[station] ELSE station
  IN IF ~HasClassAttr(AliasDicRef) THEN Raise("AttributeError")
     ELSE IF s1 \in DOMAIN isc2gfn_alias_dic THEN Return(isc2gfn_alias_dic[s1])
     ELSE IF ~HasClassAttr(DuplicateDicRef) THEN Raise("AttributeError")
     ELSE IF s1 \in DOMAIN isc2gfn_duplicate_dic THEN Return(isc2gfn_duplicate_dic[s1])
     ELSE IF s1 \in DOMAIN gfn_dic THEN Return(gfn_dic[s1])
     ELSE Return(s1)

(* ------------------------- the bulletin's lines ----------------------- *)

\* The index of the onset-quality character of a phase line.
OnsetCol == 101

\* A phase line of ncols characters; the fields are what the slices
\* line[0:5], line[19:27], line[28:40], line[41:46] hold after strip() and,
\* when the line is long enough, the character line[101].
PhaseLine(ncols, station, phase, time, resid, qual) ==
  [ncols |-> ncols, station |-> station, phase |-> phase, time |-> time,
   resid |-> resid, qual |-> qual]

\* str.isalnum() for the codes of the model: the empty string and a code
\* with a dash are not alphanumeric.
IsAlnum(s) == s \notin {"", "A-1"}

LineABCi == PhaseLine(122, "ABC", "P", TimeField("frac", Time(10, 0, 5, 0)), NumField("blank", 0), "i")

LineABCe == PhaseLine(122, "ABC", "P", TimeField("frac", Time(10, 0, 7, 500000)), NumField("num", 50), "e")

\* a pick before the origin's time of day, its time without a fraction
LineGRF == PhaseLine(122, "GRF", "P", TimeField("plain", Time(9, 30, 0, 0)), NumField("num", 0), "i")

\* a pick at the origin's time of day, station known to the ISC alias file
LineOLD == PhaseLine(122, "OLD", "P", TimeField("frac", Time(10, 0, 0, 0)), NumField("blank", 0), "q")

LineXYZs == PhaseLine(122, "XYZ", "S", TimeField("frac", Time(10, 1, 0, 0)), NumField("blank", 0), "e")

LineDash == PhaseLine(122, "A-1", "P", TimeField("frac", Time(10, 0, 9, 0)), NumField("blank", 0), "i")

LineBadTime == PhaseLine(122, "IVI", "P", TimeField("bad", Time(0, 0, 0, 0)), NumField("blank", 0), "i")

LineBadQual == PhaseLine(122, "IVI", "P", TimeField("frac", Time(10, 0, 3, 0)), NumField("blank", 0), "x")

\* a magnitude line: short, no phase code
LineMag == PhaseLine(40, "mb", "", TimeField("bad", Time(0, 0, 0, 0)), NumField("blank", 0), "")

\* a phase line cut before the onset-quality column
LineShort == PhaseLine(60, "ABC", "P", TimeField("frac", Time(10, 0, 6, 0)), NumField("num", 20), "")

Lines ==
  { LineABCi, LineABCe, LineGRF, LineOLD, LineXYZs, LineDash, LineBadTime,
    LineBadQual, LineMag, LineShort }

\* An origin line of ncols characters with its date, time, time error,
\* RMS, latitude, longitude and depth columns.
OriginLine(ncols, date, time, terr, rms, lat, lon, depth) ==
  [ncols |-> ncols, date |-> date, time |-> time, otime_err |-> terr,
   residual_rms |-> rms, elat |-> lat, elon |-> lon, edepth |-> depth]

Num(v) == NumField("num", v)

Blank == NumField("blank", 0)

Bad == NumField("bad", 0)

OriginTime == TimeField("frac", Time(10, 0, 0, 0))

OriginGood == OriginLine(136, Num(100), OriginTime, Num(12), Blank, Num(3550), Num(5125), Num(1000))

OriginBadDate == OriginLine(136, Bad, OriginTime, Blank, Blank, Num(3550), Num(5125), Num(1000))

\* a time without a fraction does not match "%H:%M:%S.%f"
OriginBadTime == OriginLine(136, Num(100), TimeField("plain", Time(10, 0, 0, 0)), Blank, Blank, Num(3550), Num(5125), Num(1000))

OriginBadLat == OriginLine(136, Num(100), OriginTime, Blank, Blank, Bad, Num(5125), Num(1000))

OriginBadLon == OriginLine(136, Num(100), OriginTime, Blank, Blank, Num(3550), Blank, Num(1000))

OriginBadDepth == OriginLine(136, Num(100), OriginTime, Blank, Blank, Num(3550), Num(5125), Blank)

\* a time-error column that holds text
OriginBadErr == OriginLine(136, Num(100), OriginTime, Bad, Blank, Num(3550), Num(5125), Num(1000))

\* an origin line that ends with its depth column
OriginCut == OriginLine(76, Num(100), OriginTime, Blank, Blank, Num(3550), Num(5125), Num(1000))

OriginLines ==
  { OriginGood, OriginBadDate, OriginBadTime, OriginBadLat, OriginBadLon,
    OriginBadDepth, OriginBadErr, OriginCut }

EventIDs == {"600001", "600002"}

\* Sequences over S of length at most n.
SeqsUpTo(S, n) == UNION { [1..k -> S] : k \in 0..n }

\* The head of an event block after splitlines() and the removal of its
\* empty lines: nhead of the four lines before the phase lines are there
\* (identification, origin header, origin, phase header).
EventBlock(nhead, id, origin) ==
  [nhead |-> nhead, eventID |-> id, origin_block |-> origin]

EventBlocks ==
  { EventBlock(4, id, o) : id \in EventIDs, o \in OriginLines }
  \cup { EventBlock(0, "", OriginGood) }
  \cup { EventBlock(2, id, OriginGood) : id \in EventIDs }

(* ------------------------- origin block (216-261) --------------------- *)

\* Variant of ParseOrigin: the depth read best-effort, like the depth error.
ParseOriginDepthOptional(block) ==
  LET ob == block.origin_block
  IN IF block.nhead < 3 THEN Raise("IndexError")
     ELSE IF ParseFloat(ob.date).exc # NoExc THEN Raise("ValueError")
     ELSE IF StrptimeFrac(ob.time).exc # NoExc THEN Raise("ValueError")
     ELSE IF ob.ncols <= 22 THEN Raise("IndexError")
     ELSE IF AnyChars(ob.otime_err) /\ ParseFloat(ob.otime_err).exc # NoExc THEN Raise("ValueError")
     ELSE IF AnyChars(ob.residual_rms) /\ ParseFloat(ob.residual_rms).exc # NoExc THEN Raise("ValueError")
     ELSE IF ParseFloat(ob.elat).exc # NoExc THEN Raise("ValueError")
     ELSE IF ParseFloat(ob.elon).exc # NoExc THEN Raise("ValueError")
     ELSE IF ob.ncols <= 54 THEN Raise("IndexError")
     ELSE IF ob.ncols <= 76 THEN Raise("IndexError")
     ELSE Return(<<ParseFloat(ob.date).val, StrptimeFrac(ob.time).val,
                   ParseFloat(ob.elat).val, ParseFloat(ob.elon).val,
                   IF ParseFloat(ob.edepth).exc = NoExc THEN ParseFloat(ob.edepth).val ELSE 0>>)

\* The five fields of an Event record, or the exception the origin block
\* raises.  The error ellipse and the depth error are read inside
\* try/except: pass and change nothing.
ParseOrigin(block) ==
  LET ob == block.origin_block
  IN IF block.nhead < 1 THEN Raise("IndexError")
     ELSE IF block.nhead < 3 THEN Raise("IndexError")
     ELSE IF ParseFloat(ob.date).exc # NoExc THEN Raise("ValueError")
     ELSE IF StrptimeFrac(ob.time).exc # NoExc THEN Raise("ValueError")
     ELSE IF ob.ncols <= 22 THEN Raise("IndexError")
     ELSE IF AnyChars(ob.otime_err) /\ ParseFloat(ob.otime_err).exc # NoExc THEN Raise("ValueError")
     ELSE IF AnyChars(ob.residual_rms) /\ ParseFloat(ob.residual_rms).exc # NoExc THEN Raise("ValueError")
     ELSE IF ParseFloat(ob.elat).exc # NoExc THEN Raise("ValueError")
     ELSE IF ParseFloat(ob.elon).exc # NoExc THEN Raise("ValueError")
     ELSE IF ob.ncols <= 54 THEN Raise("IndexError")
     ELSE IF ParseFloat(ob.edepth).exc # NoExc THEN Raise("ValueError")
     ELSE IF ob.ncols <= 76 THEN Raise("IndexError")
     ELSE Return(<<ParseFloat(ob.date).val, StrptimeFrac(ob.time).val,
                   ParseFloat(ob.elat).val, ParseFloat(ob.elon).val,
                   ParseFloat(ob.edepth).val>>)

(* -------------------------- phase line (266-311) ---------------------- *)

\* line 272
Eligible(line, desired) == IsAlnum(line.station) /\ IsAlnum(line.phase) /\ line.phase \in desired

\* The body of the try block, lines 274-309: the pick and its station, or
\* the first exception raised.
TryLine(line, origin_date, origin_time, isc_dic, gfn_dic) ==
  LET at == ParseArrivalTime(line.time)
      res == IF AnyChars(line.resid) THEN ParseFloat(line.resid) ELSE Return(0)
      unc == IF HasClassAttr(Qual2ErrRef) THEN qual2err(line.phase, line.qual)
             ELSE Raise("AttributeError")
      sta == ResolveStation(line.station, isc_dic, gfn_dic)
  IN IF at.exc # NoExc THEN Raise(at.exc)
     ELSE IF res.exc # NoExc THEN Raise(res.exc)
     ELSE IF unc.exc # NoExc THEN Raise(unc.exc)
     ELSE IF sta.exc # NoExc THEN Raise(sta.exc)
     ELSE Return([station |-> sta.val,
                  pick |-> Pick(line.qual,
                                ArrivalDate(origin_date, origin_time, at.val),
                                at.val,
                                unc.val,
                                IF AnyChars(line.resid) THEN ResFloat(res.val) ELSE ResNA)])

\* list.append under "if x not in list"
AppendNew(list, x) == IF \E k \in 1..Len(list) : list[k] = x THEN list ELSE Append(list, x)

\* One pass of the loop body over a phase line: exc is the exception that
\* leaves the loop (none when the line was recorded, dropped or skipped).
ProcessLine(line, dic, stas, origin_date, origin_time, desired, isc_dic, gfn_dic) ==
  IF line.ncols <= OnsetCol THEN [exc |-> "IndexError", dic |-> dic, stations |-> stas]
  ELSE IF ~Eligible(line, desired) THEN [exc |-> NoExc, dic |-> dic, stations |-> stas]
  ELSE LET r == TryLine(line, origin_date, origin_time, isc_dic, gfn_dic)
       IN IF r.exc # NoExc THEN [exc |-> NoExc, dic |-> dic, stations |-> stas]
          ELSE LET key == <<r.val.station, line.phase>>
                   old == IF key \in DOMAIN dic THEN dic[key] ELSE <<>>
               IN [exc |-> NoExc,
                   dic |-> DicSet(dic, key, Append(old, r.val.pick)),
                   stations |-> AppendNew(stas, r.val.station)]

(* --------------------------- writer (313-340) ------------------------- *)

\* The sort key of line 321: date and time of the first member of the group.
KeyLess(dic, a, b) ==
  \/ dic[a][1][2] < dic[b][1][2]
  \/ dic[a][1][2] = dic[b][1][2] /\ TimeLT(dic[a][1][3], dic[b][1][3])

\* sorted(dic.keys(), key=...): the orders of the keys that ascend in the
\* sort key; keys with equal sort keys stay in the dict's own order, which
\* is any order.
KeyOrders(dic) ==
  LET n == Cardinality(DOMAIN dic)
  IN { s \in [1..n -> DOMAIN dic] :
         /\ \A a, b \in 1..n : a # b => s[a] # s[b]
         /\ \A a, b \in 1..n : a < b => ~KeyLess(dic, s[b], s[a]) }

\* "%7.1f" of a fraction of hundredths, as tenths; an exact half goes to the
\* even tenth here (the double's binary expansion decides it in the code).
Fmt1f(r) ==
  LET d == 10 * r.den
      q == r.num \div d
      rem2 == 2 * (r.num % d)
  IN IF rem2 > d \/ (rem2 = d /\ q % 2 = 1) THEN q + 1 ELSE q

\* The pick line of lines 331-335.  The seconds are rendered from
\* pickdata[2].second and pickdata[2].msecond / 1.0e6.
FormatLine(station, phase, pickdata) ==
  IF ~HasTimeAttr(SubSecondRef) THEN Raise("AttributeError")
  ELSE Return([station |-> station, on |-> pickdata[1], phase |-> phase,
               date |-> pickdata[2],
               hour |-> pickdata[3].hour, minute |-> pickdata[3].minute,
               second |-> pickdata[3].second, hundredths |-> 0,
               err |-> Fmt1f(pickdata[4]), res |-> pickdata[5]])

\* The loop of lines 322-337 over skeys, from pick lines `done` already
\* written: the lines written and the exception that ends the loop.
RECURSIVE WritePicks(_, _, _, _, _)
WritePicks(dic, skeys, origin_date, origin_time, done) ==
  IF skeys = <<>> THEN [exc |-> NoExc, written |-> done]
  ELSE LET k == skeys[1]
           pickdata == IF Len(dic[k]) > 1
                       THEN IF HasClassAttr(AveragePickRef)
                            THEN average_pick(origin_date, origin_time, dic[k])
                            ELSE Raise("AttributeError")
                       ELSE Return(dic[k][1])
           new_line == FormatLine(k[1], k[2], pickdata.val)
       IN IF pickdata.exc # NoExc THEN [exc |-> pickdata.exc, written |-> done]
          ELSE IF new_line.exc # NoExc THEN [exc |-> new_line.exc, written |-> done]
          ELSE WritePicks(dic, Tail(skeys), origin_date, origin_time, Append(done, new_line.val))

\* os.path.join(outdir, 'isc' + eventID + '.nll')
FileName(dir, id) == <<dir, "isc", id, ".nll">>

(* ----------------------- splitter (lines 206-209) -------------------- *)

\* The characters of a bulletin text: a space, a line break ("nl"), the
\* word Event ("E"), the word STOP ("S") and any other printing character
\* ("x").  The two words stand as one character each.
Chars == {" ", "nl", "E", "S", "x"}

\* \s
IsWs(c) == c \in {" ", "nl"}

\* The first position at or after k that holds no white space.
RECURSIVE RunEnd(_, _)
RunEnd(text, k) == IF k <= Len(text) /\ IsWs(text[k]) THEN RunEnd(text, k + 1) ELSE k

\* Variant of LeadingWs: \s* in place of \s+ before the word.
LeadingWsOptional(text, k) == k <= Len(text)

\* \s+ before the word of the pattern: at least one white-space character.
LeadingWs(text, k) == k <= Len(text) /\ IsWs(text[k])

\* The pattern \s+<word>\s+ tried at position k: the position after the
\* match, or 0 when it does not match there.  Both \s+ are greedy.
MatchEnd(text, k, word) ==
  IF ~LeadingWs(text, k) THEN 0
  ELSE LET j == RunEnd(text, k)
       IN IF j + 1 <= Len(text) /\ text[j] = word /\ IsWs(text[j + 1])
          THEN RunEnd(text, j + 1)
          ELSE 0

\* re.split(pattern, text): the pieces between the matches, found from the
\* left and not overlapping.  start is where the current piece begins, k the
\* position the next match is sought from.
RECURSIVE ReSplitFrom(_, _, _, _)
ReSplitFrom(text, word, start, k) ==
  IF k > Len(text) THEN << SubSeq(text, start, Len(text)) >>
  ELSE LET e == MatchEnd(text, k, word)
       IN IF e = 0 THEN ReSplitFrom(text, word, start, k + 1)
          ELSE << SubSeq(text, start, k - 1) >> \o ReSplitFrom(text, word, e, e)

ReSplit(text, word) == ReSplitFrom(text, word, 1, 1)

\* lines 208-209
SplitBulletin(text) == Tail(ReSplit(ReSplit(text, "S")[1], "E"))

(* ------------------------------- state -------------------------------- *)

VARIABLES
  pc,                   \* position of bulletin_parser
  exc,                  \* the exception that left bulletin_parser, or none
  raised_in,            \* the part of bulletin_parser that raised it
  outdir,               \* the outdir argument, then the directory written to
  dir_exists,           \* whether the directory outdir (or the default) names exists
  mkdir_ok,             \* whether os.mkdir may create a directory here
  inputs_exist,         \* whether the three input paths exist
  Phases,               \* the desired phase codes
  isc_alter2prime_dic,
  gfn_sta2net_dic,
  nEvents,
  i,                    \* index of the event block being processed
  eventID,
  origin_block,
  origin_date,
  origin_time,
  phase_block,          \* the phase lines the line loop has taken so far
  phase_block_dic,
  stations,
  events_dic,
  files,                \* the files written: name -> [head, picks]
  open_files,           \* the names of the files open for writing
  textdata,             \* splitter: the bulletin's text
  split_bulletin,       \* splitter: the event blocks
  pick_list,            \* reconciler: a PickGroup
  perm_list,            \* reconciler: the same members in another order
  pickdata,             \* reconciler: outcome on pick_list
  perm_pickdata         \* reconciler: outcome on perm_list

vars ==
  << pc, exc, raised_in, outdir, dir_exists, mkdir_ok, inputs_exist, Phases,
     isc_alter2prime_dic, gfn_sta2net_dic, nEvents, i, eventID, origin_block,
     origin_date, origin_time, phase_block, phase_block_dic, stations,
     events_dic, files, open_files, textdata, split_bulletin, pick_list,
     perm_list, pickdata, perm_pickdata >>

argVars == << outdir, dir_exists, mkdir_ok, inputs_exist, Phases >>

tableVars == << isc_alter2prime_dic, gfn_sta2net_dic >>

eventVars == << eventID, origin_block, origin_date, origin_time, phase_block >>

sideVars == << textdata, split_bulletin, pick_list, perm_list, pickdata, perm_pickdata >>

PyNone == "<None>"

DefaultDir == "./isc_data_nlloc_format"

\* "not outdir"
Falsy(x) == x \in {PyNone, ""}

NoOrigin == OriginLine(0, Blank, TimeField("bad", Time(0, 0, 0, 0)), Blank, Blank, Blank, Blank, Blank)

\* The values of the variables before bulletin_parser assigns them.
Unassigned ==
  /\ exc = NoExc
  /\ raised_in = "none"
  /\ isc_alter2prime_dic = EmptyDic
  /\ gfn_sta2net_dic = EmptyDic
  /\ nEvents = 0
  /\ i = 0
  /\ eventID = ""
  /\ origin_block = NoOrigin
  /\ origin_date = 0
  /\ origin_time = Time(0, 0, 0, 0)
  /\ phase_block = <<>>
  /\ phase_block_dic = EmptyDic
  /\ stations = <<>>
  /\ events_dic = EmptyDic
  /\ files = EmptyDic
  /\ open_files = {}

NoSide ==
  /\ textdata = <<>>
  /\ split_bulletin = <<>>
  /\ pick_list = <<>>
  /\ perm_list = <<>>
  /\ pickdata = Raise("unset")
  /\ perm_pickdata = Raise("unset")

\* A call of bulletin_parser: its arguments and the file system it meets.
Init ==
  /\ pc = "start"
  /\ outdir \in {PyNone, "", "out"}
  /\ dir_exists \in BOOLEAN
  /\ mkdir_ok \in BOOLEAN
  /\ inputs_exist \in BOOLEAN
  /\ Phases \in {{"P"}, {"P", "S"}}
  /\ Unassigned
  /\ NoSide

(* ------------------ argument checks (lines 178-196) ------------------- *)

\* isinstance() called with n arguments.
IsInstanceCall(n) == IF n = 2 THEN Return(TRUE) ELSE Raise("TypeError")

\* The outcome of lines 184-190: the directory to write to, whether it was
\* made, or the exception.
CheckOutdir(dir, exists, may_create) ==
  IF Falsy(dir)
  THEN IF exists \/ ~may_create THEN Raise("OSError")
       ELSE Return([outdir |-> DefaultDir, exists |-> TRUE])
  ELSE IF IsInstanceCall(1).exc # NoExc THEN Raise(IsInstanceCall(1).exc)
  ELSE IF ~exists THEN Raise("InputError")
  ELSE Return([outdir |-> dir, exists |-> exists])

Throw(e, where) ==
  /\ pc' = "raised"
  /\ exc' = e
  /\ raised_in' = where

CheckArgs ==
  /\ pc = "start"
  /\ LET r == CheckOutdir(outdir, dir_exists, mkdir_ok)
     IN IF ~inputs_exist
        THEN Throw("InputError", "inputs") /\ UNCHANGED << outdir, dir_exists >>
        ELSE IF r.exc # NoExc
        THEN Throw(r.exc, "outdir") /\ UNCHANGED << outdir, dir_exists >>
        ELSE /\ pc' = "stations"
             /\ outdir' = r.val.outdir
             /\ dir_exists' = r.val.exists
             /\ UNCHANGED << exc, raised_in >>
  /\ UNCHANGED << mkdir_ok, inputs_exist, Phases, tableVars, nEvents, i, eventVars,
                  phase_block_dic, stations, events_dic, files, open_files, sideVars >>

(* ------------- registries and bulletin (lines 198-213) ---------------- *)

ReadStations ==
  /\ pc = "stations"
  /\ \E isc \in IscFiles, gfn \in GfnFiles :
       /\ isc_alter2prime_dic' = read_isc_stations(isc)
       /\ gfn_sta2net_dic' = read_gfn_stations(gfn)
  /\ pc' = "bulletin"
  /\ UNCHANGED << exc, raised_in, argVars, nEvents, i, eventVars, phase_block_dic,
                  stations, events_dic, files, open_files, sideVars >>

\* Lines 206-213: the bulletin is read and split; its blocks are drawn one
\* by one as the loop reaches them (ReadEvent), so only their number is
\* fixed here.
OpenBulletin ==
  /\ pc = "bulletin"
  /\ \E n \in 0..MaxEvents : nEvents' = n
  /\ i' = 0
  /\ pc' = "event"
  /\ UNCHANGED << exc, raised_in, argVars, tableVars, eventVars, phase_block_dic,
                  stations, events_dic, files, open_files, sideVars >>

(* ------------------- one event: origin (216-265) ---------------------- *)

ReadEvent ==
  /\ pc = "event"
  /\ i < nEvents
  /\ \E block \in EventBlocks :
       LET r == ParseOrigin(block)
       IN IF block.nhead < 1
          THEN Throw(r.exc, "origin")
               /\ UNCHANGED << eventVars, events_dic, phase_block_dic >>
          ELSE IF block.nhead < 3
          THEN Throw(r.exc, "origin")
               /\ eventID' = block.eventID
               /\ UNCHANGED << origin_block, origin_date, origin_time, phase_block,
                               events_dic, phase_block_dic >>
          ELSE IF r.exc # NoExc
          THEN Throw(r.exc, "origin")
               /\ eventID' = block.eventID
               /\ origin_block' = block.origin_block
               /\ UNCHANGED << origin_date, origin_time, phase_block,
                               events_dic, phase_block_dic >>
          ELSE /\ eventID' = block.eventID
               /\ origin_block' = block.origin_block
               /\ origin_date' = r.val[1]
               /\ origin_time' = r.val[2]
               /\ events_dic' = DicSet(events_dic, block.eventID, r.val)
               /\ phase_block' = <<>>
               /\ phase_block_dic' = EmptyDic
               /\ pc' = "phase"
               /\ UNCHANGED << exc, raised_in >>
  /\ UNCHANGED << argVars, tableVars, nEvents, i, stations, files, open_files, sideVars >>

(* ------------------- one event: phase lines (266-311) ----------------- *)

\* The loop body on the next line of the block; the line is drawn as the
\* loop reaches it.
ReadPhaseLine ==
  /\ pc = "phase"
  /\ Len(phase_block) < MaxLines
  /\ \E line \in Lines :
       LET r == ProcessLine(line, phase_block_dic, stations,
                            origin_date, origin_time, Phases,
                            isc_alter2prime_dic, gfn_sta2net_dic)
       IN /\ phase_block' = Append(phase_block, line)
          /\ phase_block_dic' = r.dic
          /\ stations' = r.stations
          /\ IF r.exc # NoExc THEN Throw(r.exc, "phase")
             ELSE UNCHANGED << pc, exc, raised_in >>
  /\ UNCHANGED << argVars, tableVars, nEvents, i, eventID, origin_block, origin_date,
                  origin_time, events_dic, files, open_files, sideVars >>

(* ------------------- one event: the file (313-340) -------------------- *)

\* The block has no further line: the file of the event is written.
WriteObservations ==
  /\ pc = "phase"
  /\ \E skeys \in KeyOrders(phase_block_dic) :
       LET name == FileName(outdir, eventID)
           w == WritePicks(phase_block_dic, skeys, origin_date, origin_time, <<>>)
       IN /\ files' = DicSet(files, name,
                             [head |-> <<eventID, origin_block>>, picks |-> w.written])
          /\ IF w.exc # NoExc
             THEN /\ Throw(w.exc, "write")
                  /\ open_files' = open_files \cup {name}
                  /\ i' = i
             ELSE /\ open_files' = open_files
                  /\ i' = i + 1
                  /\ pc' = "event"
                  /\ UNCHANGED << exc, raised_in >>
  /\ UNCHANGED << argVars, tableVars, nEvents, eventVars, phase_block_dic, stations,
                  events_dic, sideVars >>

(* ------------------------ the return (342-344) ------------------------ *)

\* events is bound by the loop body only: with no event block the return
\* reads an unbound local.
Finish ==
  /\ pc = "event"
  /\ i = nEvents
  /\ IF nEvents = 0 THEN Throw("UnboundLocalError", "return")
     ELSE pc' = "done" /\ UNCHANGED << exc, raised_in >>
  /\ UNCHANGED << argVars, tableVars, nEvents, i, eventVars, phase_block_dic, stations,
                  events_dic, files, open_files, sideVars >>

Next ==
  \/ CheckArgs
  \/ ReadStations
  \/ OpenBulletin
  \/ ReadEvent
  \/ ReadPhaseLine
  \/ WriteObservations
  \/ Finish

Spec == Init /\ [][Next]_vars

(* --------------------- the splitter on its own ------------------------ *)

Idle ==
  /\ outdir = PyNone
  /\ dir_exists = FALSE
  /\ mkdir_ok = TRUE
  /\ inputs_exist = TRUE
  /\ Phases = {"P"}
  /\ Unassigned

InitSplit ==
  /\ pc = "split"
  /\ Idle
  /\ textdata \in SeqsUpTo(Chars, MaxText)
  /\ split_bulletin = <<>>
  /\ pick_list = <<>>
  /\ perm_list = <<>>
  /\ pickdata = Raise("unset")
  /\ perm_pickdata = Raise("unset")

SplitText ==
  /\ pc = "split"
  /\ split_bulletin' = SplitBulletin(textdata)
  /\ pc' = "split_done"
  /\ UNCHANGED << exc, raised_in, argVars, tableVars, nEvents, i, eventVars,
                  phase_block_dic, stations, events_dic, files, open_files,
                  textdata, pick_list, perm_list, pickdata, perm_pickdata >>

SpecSplit == InitSplit /\ [][SplitText]_vars

(* -------------------- the reconciler on its own ----------------------- *)

\* The picks a PickGroup is drawn from: picks of one (station, phase) of an
\* event with origin OriginGood, as lines 308-309 build them.
GroupPicks ==
  { Pick("i", 100, Time(10, 0, 5, 0), Rat(20), ResNA),
    Pick("e", 100, Time(10, 0, 7, 500000), Rat(50), ResFloat(50)),
    Pick("q", 100, Time(10, 0, 0, 0), Rat(100), ResFloat(0)),
    Pick("i", 101, Time(9, 30, 0, 0), Rat(20), ResFloat(-30)) }

\* s and t hold the same members, each as often.
IsPermutation(s, t) ==
  /\ Len(s) = Len(t)
  /\ \E f \in [1..Len(s) -> 1..Len(s)] :
       /\ \A a, b \in 1..Len(s) : a # b => f[a] # f[b]
       /\ \A a \in 1..Len(s) : t[a] = s[f[a]]

InitAverage ==
  /\ pc = "average"
  /\ Idle
  /\ textdata = <<>>
  /\ split_bulletin = <<>>
  /\ pick_list \in { s \in SeqsUpTo(GroupPicks, MaxPicks) : Len(s) >= 2 }
  /\ perm_list \in { t \in SeqsUpTo(GroupPicks, MaxPicks) : IsPermutation(pick_list, t) }
  /\ pickdata = Raise("unset")
  /\ perm_pickdata = Raise("unset")

\* __average_pick called on the group and on its permutation, for the origin
\* of OriginGood.
AveragePicks ==
  /\ pc = "average"
  /\ pickdata' = average_pick(ParseOrigin(EventBlock(4, "600001", OriginGood)).val[1],
                              ParseOrigin(EventBlock(4, "600001", OriginGood)).val[2],
                              pick_list)
  /\ perm_pickdata' = average_pick(ParseOrigin(EventBlock(4, "600001", OriginGood)).val[1],
                                   ParseOrigin(EventBlock(4, "600001", OriginGood)).val[2],
                                   perm_list)
  /\ pc' = "average_done"
  /\ UNCHANGED << exc, raised_in, argVars, tableVars, nEvents, i, eventVars,
                  phase_block_dic, stations, events_dic, files, open_files,
                  textdata, split_bulletin, pick_list, perm_list >>

SpecAverage == InitAverage /\ [][AveragePicks]_vars

(* ---------------------- the writer on its own ------------------------- *)

\* The PickGroups of an event at the write step: one or two picks per key.
WriteGroups == { g \in SeqsUpTo(GroupPicks, 2) : g # <<>> }

\* phase_block_dic at line 313: groups under none, one or both of two keys.
WriteDics ==
  UNION { [ks -> WriteGroups] : ks \in SUBSET {<<"ABC", "P">>, <<"GR_GRA1", "P">>} }

\* The last event of a run at line 313: its origin parsed, its phase lines
\* read, the output directory in place.
InitWrite ==
  /\ pc = "phase"
  /\ outdir = DefaultDir
  /\ dir_exists = TRUE
  /\ mkdir_ok = TRUE
  /\ inputs_exist = TRUE
  /\ Phases = {"P"}
  /\ exc = NoExc
  /\ raised_in = "none"
  /\ isc_alter2prime_dic = EmptyDic
  /\ gfn_sta2net_dic = EmptyDic
  /\ nEvents = 1
  /\ i = 0
  /\ eventID \in EventIDs
  /\ origin_block = OriginGood
  /\ origin_date = ParseOrigin(EventBlock(4, eventID, OriginGood)).val[1]
  /\ origin_time = ParseOrigin(EventBlock(4, eventID, OriginGood)).val[2]
  /\ phase_block = <<>>
  /\ phase_block_dic \in WriteDics
  /\ stations = <<>>
  /\ events_dic = EmptyDic
  /\ files = EmptyDic
  /\ open_files = {}
  /\ NoSide

NextWrite ==
  \/ WriteObservations
  \/ Finish

SpecWrite == InitWrite /\ [][NextWrite]_vars

(* ====================================================================== *)
(*                              Properties                                *)
(* ====================================================================== *)

\* Two fractions are the same number.
RatEq(a, b) == a.num * b.den = b.num * a.den

\* The phase line the line loop took last.
LastLine == phase_block[Len(phase_block)]

\* A line that nothing in the documented line rules rejects: long enough
\* for every column, eligible, with a time in one of the two patterns, a
\* blank or numeric residual and an onset quality of the uncertainty table.
Recordable(line) ==
  /\ line.ncols > OnsetCol
  /\ Eligible(line, Phases)
  /\ line.time.fmt \in {"frac", "plain"}
  /\ line.resid.kind \in {"blank", "num"}
  /\ line.qual \in {"i", "e", "_", "q"}

\* The time of day a recordable line spells.
LineTime(line) ==
  IF line.time.fmt = "plain"
  THEN Time(line.time.t.hour, line.time.t.minute, line.time.t.second, 0)
  ELSE line.time.t

\* The station resolution chain as documented: the ISC alias table, then
\* the first matching of the embedded alias table, the embedded duplicate
\* table and the GEOFON table.
ChainCode(station) ==
  LET s1 == IF station \in DOMAIN isc_alter2prime_dic THEN isc_alter2prime_dic[station]
            ELSE station
  IN IF s1 \in DOMAIN isc2gfn_alias_dic THEN isc2gfn_alias_dic[s1]
     ELSE IF s1 \in DOMAIN isc2gfn_duplicate_dic THEN isc2gfn_duplicate_dic[s1]
     ELSE IF s1 \in DOMAIN gfn_sta2net_dic THEN gfn_sta2net_dic[s1]
     ELSE s1

\* The line loop has just taken a recordable line.
TookRecordable == pc = "phase" /\ Len(phase_block) > 0 /\ Recordable(LastLine)

\* The write step of the current event is over.
EventWritten ==
  \/ pc \in {"event", "done"} /\ i >= 1
  \/ pc = "raised" /\ raised_in = "write"

\* The file of the current event.
EventFile == files[FileName(outdir, eventID)]

\* C1: the station of every recordable line is recorded under the code the
\* resolution chain gives (ISC alias table, then the first matching of the
\* embedded alias, embedded duplicate and GEOFON tables): after the line,
\* that code is in the distinct-stations list and keys a PickGroup; a GRF
\* line with no ISC alias entry is recorded as GR_GRA1.
C1_StationResolved ==
  TookRecordable =>
    /\ \E k \in 1..Len(stations) : stations[k] = ChainCode(LastLine.station)
    /\ <<ChainCode(LastLine.station), LastLine.phase>> \in DOMAIN phase_block_dic
    /\ (LastLine.station = "GRF" /\ "GRF" \notin DOMAIN isc_alter2prime_dic
          => \E k \in 1..Len(stations) : stations[k] = "GR_GRA1")

\* C2: __average_pick returns a reconciled pick, and the same one, for a
\* PickGroup and for every permutation of its members.
C2_PermutationInvariant ==
  pc = "average_done" =>
    /\ pickdata.exc = NoExc
    /\ perm_pickdata.exc = NoExc
    /\ pickdata.val = perm_pickdata.val

\* C3: an event whose phase block is the two lines station ABC, phase P,
\* onset qualities i and e gets a file with exactly one pick line, of onset
\* quality '?' and uncertainty mean(0.2, 0.5) = 0.35.
C3_TwoPicksOneLine ==
  (EventWritten /\ phase_block = <<LineABCi, LineABCe>>) =>
    /\ Len(EventFile.picks) = 1
    /\ EventFile.picks[1].on = "?"
    /\ RatEq(Rat(10 * EventFile.picks[1].err), [num |-> 20 + 50, den |-> 2])

RecordableKeys ==
  { <<ChainCode(phase_block[k].station), phase_block[k].phase>> :
      k \in { n \in 1..Len(phase_block) : Recordable(phase_block[n]) } }

\* C5: the file of an event holds one pick line per (station, phase) key,
\* in ascending order of the (date, time) written on the lines.
C5_OutputOrdered ==
  EventWritten =>
    /\ Len(EventFile.picks) = Cardinality(RecordableKeys)
    /\ \A a, b \in 1..Len(EventFile.picks) :
         a < b =>
           LET x == EventFile.picks[a]
               y == EventFile.picks[b]
           IN \/ x.date < y.date
              \/ x.date = y.date /\ ~TimeLT(Time(y.hour, y.minute, y.second, 0),
                                           Time(x.hour, x.minute, x.second, 0))

\* C6: a line that is not eligible (station or phase code not alphanumeric,
\* or phase not desired) is dropped without error: the step that takes it
\* raises nothing, adds no pick to any PickGroup and adds no station.
C6_IneligibleDropped ==
  [][ (pc = "phase" /\ Len(phase_block') = Len(phase_block) + 1
         /\ ~Eligible(phase_block'[Len(phase_block')], Phases))
        => (pc' = "phase" /\ phase_block_dic' = phase_block_dic /\ stations' = stations) ]_vars

\* The origin line of the current event has a date, time, latitude,
\* longitude or depth that does not parse.
OriginUnparsable ==
  /\ origin_block # NoOrigin
  /\ \/ origin_block.date.kind # "num"
     \/ origin_block.time.fmt # "frac"
     \/ origin_block.elat.kind # "num"
     \/ origin_block.elon.kind # "num"
     \/ origin_block.edepth.kind # "num"

C8_OutdirAccepted ==
  /\ (pc = "raised" /\ raised_in = "outdir") => (~dir_exists /\ ~mkdir_ok)
  /\ \A name \in DOMAIN files : name[1] = outdir

\* The first position at or after k that holds white space.
RECURSIVE WordEnd(_, _)
WordEnd(text, k) == IF k <= Len(text) /\ ~IsWs(text[k]) THEN WordEnd(text, k + 1) ELSE k

\* The words of a text (its maximal runs without white space) from position
\* k on, each with whether white space stands right before and right after it.
RECURSIVE WordsFrom(_, _)
WordsFrom(text, k) ==
  IF k > Len(text) THEN <<>>
  ELSE IF IsWs(text[k]) THEN WordsFrom(text, k + 1)
  ELSE LET e == WordEnd(text, k)
       IN << [w |-> SubSeq(text, k, e - 1), pre |-> k > 1, post |-> e <= Len(text)] >>
          \o WordsFrom(text, e)

\* A text as the sequence of its words.
WordsOnly(text) == [k \in 1..Len(WordsFrom(text, 1)) |-> WordsFrom(text, 1)[k].w]

\* Blocks of text as sequences of words.
NormalBlocks(blocks) == [b \in 1..Len(blocks) |-> WordsOnly(blocks[b])]

\* The words before the first word STOP that has white space on both sides;
\* the white space before that STOP goes with it.
BeforeStop(words) ==
  LET hits == { k \in 1..Len(words) : words[k].w = <<"S">> /\ words[k].pre /\ words[k].post }
  IN IF hits = {} THEN words
     ELSE LET first == CHOOSE k \in hits : \A h \in hits : k <= h
          IN [k \in 1..(first - 1) |->
                IF k = first - 1 THEN [words[k] EXCEPT !.post = FALSE] ELSE words[k]]

\* Word k is a separator: the word Event with white space on both sides,
\* unless the word before it is a separator (whose match took that space).
RECURSIVE IsSeparator(_, _)
IsSeparator(words, k) ==
  /\ words[k].w = <<"E">>
  /\ words[k].pre
  /\ words[k].post
  /\ ~(k > 1 /\ IsSeparator(words, k - 1))

\* The pieces the separators cut the first k words into.
RECURSIVE PiecesUpTo(_, _)
PiecesUpTo(words, k) ==
  IF k = 0 THEN << <<>> >>
  ELSE LET before == PiecesUpTo(words, k - 1)
           n == Len(before)
       IN IF IsSeparator(words, k) THEN Append(before, <<>>)
          ELSE [before EXCEPT ![n] = Append(before[n], words[k].w)]

\* The blocks by words: the pieces after the first separator.
WordBlocks(text) ==
  LET words == BeforeStop(WordsFrom(text, 1))
  IN Tail(PiecesUpTo(words, Len(words)))

\* The lines of a text: the runs between line breaks, from position k on,
\* cur being the line in progress.
RECURSIVE LinesFrom(_, _, _)
LinesFrom(text, k, cur) ==
  IF k > Len(text) THEN << cur >>
  ELSE IF text[k] = "nl" THEN << cur >> \o LinesFrom(text, k + 1, <<>>)
  ELSE LinesFrom(text, k + 1, Append(cur, text[k]))

\* A line that holds only the word, white space aside.
MarkerLine(line, word) == WordsOnly(line) = << <<word>> >>

\* The lines before the first line that holds only STOP.
LinesBeforeStop(lines) ==
  LET hits == { k \in 1..Len(lines) : MarkerLine(lines[k], "S") }
  IN IF hits = {} THEN lines
     ELSE SubSeq(lines, 1, (CHOOSE k \in hits : \A h \in hits : k <= h) - 1)

\* The pieces the lines that hold only Event cut the first k lines into,
\* each piece as its words.
RECURSIVE LinePiecesUpTo(_, _)
LinePiecesUpTo(lines, k) ==
  IF k = 0 THEN << <<>> >>
  ELSE LET before == LinePiecesUpTo(lines, k - 1)
           n == Len(before)
       IN IF MarkerLine(lines[k], "E") THEN Append(before, <<>>)
          ELSE [before EXCEPT ![n] = before[n] \o WordsOnly(lines[k])]

\* The blocks by marker lines, as the claim states them.
LineBlocks(text) ==
  LET lines == LinesBeforeStop(LinesFrom(text, 1, <<>>))
  IN Tail(LinePiecesUpTo(lines, Len(lines)))

\* C9 (as stated): the blocks are the text before the first line that holds
\* only STOP, split at every line that holds only Event, the preamble
\* discarded, in source order.
C9_SplitAtMarkerLines ==
  pc = "split_done" => NormalBlocks(split_bulletin) = LineBlocks(textdata)

\* C9 (amended): the blocks are the text before the first word STOP that
\* has white space on both sides, split at every word Event that has white
\* space on both sides and does not directly follow another such split
\* point, the piece before the first split point discarded, in source order.
C9_SplitAtBracketedWords ==
  pc = "split_done" => NormalBlocks(split_bulletin) = WordBlocks(textdata)

\* C9 witness: an Event in the middle of a line, between spaces and after
\* a word of that line, has started the second of two blocks.
C9_Witness ==
  /\ pc = "split_done"
  /\ Len(split_bulletin) = 2
  /\ \E k \in 3..(Len(textdata) - 1) :
       /\ textdata[k] = "E"
       /\ textdata[k - 1] = " "
       /\ textdata[k + 1] = " "
       /\ textdata[k - 2] = "x"

\* C10: no exception raised while a phase line is processed reaches the
\* caller of bulletin_parser: no eligible line ends the run.
C10_LineFailureIsolated ==
  ~(pc = "raised" /\ raised_in = "phase" /\ Eligible(LastLine, Phases))

\* The residuals of the members of a group that are present, in order.
RECURSIVE PresentResiduals(_)
PresentResiduals(picks) ==
  IF picks = <<>> THEN <<>>
  ELSE IF picks[1][5] = ResNA THEN PresentResiduals(Tail(picks))
       ELSE <<picks[1][5].val>> \o PresentResiduals(Tail(picks))

\* C11: for a PickGroup of more than one member __average_pick returns a
\* pick whose residual is the mean (to two decimals) of the members'
\* residuals that are present, and 'N/A' only when no member has one; present
\* residuals that are all 0.0 give 0.0.
C11_ResidualReconciled ==
  (pc = "average_done" /\ Len(pick_list) > 1) =>
    /\ pickdata.exc = NoExc
    /\ LET r == PresentResiduals(pick_list)
       IN pickdata.val[5] = IF r = <<>> THEN ResNA
                            ELSE ResFloat(Round2([num |-> SeqSum(r), den |-> Len(r)]))

====
